---- MODULE Spec2Model ----
(***************************************************************************)
(* A model of react-component-tracker (src/index.ts): the import scanner   *)
(* extractImportStatements, the tag scanner                                *)
(* extractReactComponentInstances, the glob matcher matchWildcard, the     *)
(* filter filterIgnoredFiles built on it and the loop of main over the     *)
(* files.  Texts, paths and patterns are TLA+ strings; the character at    *)
(* position i of s is SubSeq(s, i, i).  The                                *)
(* regular expressions of the source are kept as data (sequences of        *)
(* quantified character classes) and run by a backtracking matcher, and    *)
(* the glob compiler is modelled as the string rewriting it is, followed   *)
(* by a parse of the regular expression text it produced.                  *)
(***************************************************************************)
EXTENDS Integers, Sequences, FiniteSets, TLC

VARIABLES
    pc,         \* which function has run: "start", "imports", "instances", "matched", ...
    content,    \* the text handed to the two scanners
    importMap,  \* extractImportStatements' return value (own properties of the object)
    result,     \* extractReactComponentInstances' return value
    filePath,   \* matchWildcard's first argument
    pattern,    \* matchWildcard's second argument
    matched,    \* matchWildcard's outcome: the boolean returned, or threw when new RegExp throws
    files,      \* filterIgnoredFiles' first argument; in main, the list the loop runs over
    ignorePatterns, \* filterIgnoredFiles' second argument
    filtered,   \* filterIgnoredFiles' outcome: the list returned, or threw
    fileIndex,  \* main: how many files of the list the loop has been through
    log         \* main: the calls made and the lines printed, in order

vars == <<pc, content, importMap, result, filePath, pattern, matched,
          files, ignorePatterns, filtered, fileIndex, log>>

---------------------------------------------------------------------------
(* Characters and the built-in string functions the source calls.          *)

\* s.charAt(i - 1): the character at position i (counting from 1), "" outside s
At(s, i) == IF i >= 1 /\ i <= Len(s) THEN SubSeq(s, i, i) ELSE ""

Upper == {"A","B","C","D","E","F","G","H","I","J","K","L","M",
          "N","O","P","Q","R","S","T","U","V","W","X","Y","Z"}
Lower == {"a","b","c","d","e","f","g","h","i","j","k","l","m",
          "n","o","p","q","r","s","t","u","v","w","x","y","z"}
Digit == {"0","1","2","3","4","5","6","7","8","9"}

\* \w of a JavaScript regular expression, and [a-zA-Z0-9_]
WordChars == Upper \cup Lower \cup Digit \cup {"_"}
\* [A-Za-z0-9_$]
IdentChars == WordChars \cup {"$"}
\* \s of a regular expression and the characters String.prototype.trim strips
WhiteSpace == {" ", "\t", "\n", "\r", "\f"}
\* the characters "." of a regular expression does not match
LineTerminators == {"\n", "\r"}

\* An optional value: <<>> is undefined, <<v>> is the value v.
Undefined == <<>>
Some(v) == <<v>>

\* s.substring(a - 1, b): the characters at positions a..b that s has
Slice(s, a, b) ==
    LET first == IF a < 1 THEN 1 ELSE a
        last == IF b > Len(s) THEN Len(s) ELSE b
    IN IF first > last THEN "" ELSE SubSeq(s, first, last)

\* s.startsWith(t)
StartsWith(s, t) == Len(s) >= Len(t) /\ SubSeq(s, 1, Len(t)) = t

\* the least member of a non-empty set of integers
MinOf(S) == CHOOSE x \in S : \A y \in S : x <= y

\* the 1-based index of the first occurrence of t in s at or after from; 0 when none
IndexOf(s, t, from) ==
    LET hits == {j \in from..(Len(s) - Len(t) + 1) : SubSeq(s, j, j + Len(t) - 1) = t}
    IN IF hits = {} THEN 0 ELSE MinOf(hits)

\* s.includes(t)
Includes(s, t) == IndexOf(s, t, 1) # 0

\* s.split(sep) for a non-empty separator string
RECURSIVE Split(_, _)
Split(s, sep) ==
    LET j == IndexOf(s, sep, 1) IN
    IF j = 0 THEN <<s>>
    ELSE <<SubSeq(s, 1, j - 1)>> \o Split(SubSeq(s, j + Len(sep), Len(s)), sep)

RECURSIVE TrimStart(_)
TrimStart(s) ==
    IF Len(s) > 0 /\ At(s, 1) \in WhiteSpace THEN TrimStart(SubSeq(s, 2, Len(s))) ELSE s

RECURSIVE TrimEnd(_)
TrimEnd(s) ==
    IF Len(s) > 0 /\ At(s, Len(s)) \in WhiteSpace THEN TrimEnd(SubSeq(s, 1, Len(s) - 1)) ELSE s

\* s.trim()
Trim(s) == TrimEnd(TrimStart(s))

\* s.replace(/t/g, by) for a literal t: every non-overlapping occurrence, left to right
RECURSIVE ReplaceAll(_, _, _)
ReplaceAll(s, t, by) ==
    LET j == IndexOf(s, t, 1) IN
    IF j = 0 THEN s
    ELSE SubSeq(s, 1, j - 1) \o by \o ReplaceAll(SubSeq(s, j + Len(t), Len(s)), t, by)

---------------------------------------------------------------------------
(* A plain JavaScript object used as a dictionary ({} of type Record).     *)
(* The model keeps its own properties as a function from keys to values.   *)

EmptyObject == [k \in {} |-> ""]

\* the property names every {} inherits from Object.prototype
ObjectPrototypeKeys ==
    {"__proto__", "constructor", "hasOwnProperty", "isPrototypeOf",
     "propertyIsEnumerable", "toLocaleString", "toString", "valueOf",
     "__defineGetter__", "__defineSetter__", "__lookupGetter__", "__lookupSetter__"}

\* obj[key] = val.  Assigning a string to __proto__ runs the inherited setter,
\* which ignores a value that is neither an object nor null: no own property
\* is created.
ObjSet(obj, key, val) ==
    IF key = "__proto__" THEN obj
    ELSE [k \in DOMAIN obj \cup {key} |-> IF k = key THEN val ELSE obj[k]]

\* obj[key]: the own property, else the inherited one (not a string: it is
\* written here as a tagged text), else undefined.
ObjGet(obj, key) ==
    IF key \in DOMAIN obj THEN Some(obj[key])
    ELSE IF key \in ObjectPrototypeKeys THEN Some("[inherited " \o key \o "]")
    ELSE Undefined

---------------------------------------------------------------------------
(* Regular expressions as data: a sequence of items, each a character      *)
(* class with a greedy quantifier {min, max} (max = -1: unbounded) or an   *)
(* assertion; groups name the items each capture group spans.              *)

Cls(set, neg, min, max) ==
    [kind |-> "cls", set |-> set, neg |-> neg, min |-> min, max |-> max]
Lit(c) == Cls({c}, FALSE, 1, 1)
LitStr(str) == [i \in 1..Len(str) |-> Lit(At(str, i))]
WordBoundary == [kind |-> "wordb"]
\* (?<![set]): the character before the position is not in set
NotBehind(set) == [kind |-> "notbehind", set |-> set]

InClass(c, item) == (c \in item.set) # item.neg

\* the number of characters of s from position i on that item can consume
RECURSIVE RunLength(_, _, _, _)
RunLength(item, s, i, n) ==
    IF i + n > Len(s) \/ (item.max # -1 /\ n >= item.max) THEN n
    ELSE IF InClass(At(s, i + n), item) THEN RunLength(item, s, i, n + 1)
    ELSE n

IsWordChar(s, i) == At(s, i) \in WordChars
\* \b at position i: exactly one of the characters around it is a word character
AtWordBoundary(s, i) == IsWordChar(s, i - 1) # IsWordChar(s, i)

\* whether the assertion item holds at position i of s
AssertionHolds(item, s, i) ==
    IF item.kind = "wordb" THEN AtWordBoundary(s, i)
    ELSE At(s, i - 1) \notin item.set

NoMatch == [ok |-> FALSE, ends |-> <<>>]

\* Items k.. of re matched against s from position i: ends[j] is the position
\* after item k+j-1.  Greedy: the longest run first, then backtracking.
RECURSIVE MatchItems(_, _, _, _)
RECURSIVE TryCounts(_, _, _, _, _)
MatchItems(re, k, s, i) ==
    IF k > Len(re) THEN [ok |-> TRUE, ends |-> <<>>]
    ELSE IF re[k].kind # "cls" THEN
        IF AssertionHolds(re[k], s, i) THEN
            LET r == MatchItems(re, k + 1, s, i) IN
            IF r.ok THEN [ok |-> TRUE, ends |-> <<i>> \o r.ends] ELSE NoMatch
        ELSE NoMatch
    ELSE TryCounts(re, k, s, i, RunLength(re[k], s, i, 0))
TryCounts(re, k, s, i, n) ==
    IF n < re[k].min THEN NoMatch
    ELSE LET r == MatchItems(re, k + 1, s, i + n) IN
         IF r.ok THEN [ok |-> TRUE, ends |-> <<i + n>> \o r.ends]
         ELSE TryCounts(re, k, s, i, n - 1)

NullMatch == [found |-> FALSE]

\* the leftmost match of re in s starting at position i or later
ExecFrom(re, s, i) ==
    LET starts == {j \in i..(Len(s) + 1) : MatchItems(re.items, 1, s, j).ok} IN
    IF starts = {} THEN NullMatch
    ELSE LET j == MinOf(starts)
             r == MatchItems(re.items, 1, s, j)
         IN [found |-> TRUE, index |-> j, ends |-> r.ends,
             lastIndex |-> r.ends[Len(r.ends)] - 1]

\* re.exec(s) of a /g expression whose lastIndex (0-based) is lastIndex; a
\* failed search leaves lastIndex 0, a match leaves it after the match.
RegExpExec(re, s, lastIndex) ==
    IF lastIndex > Len(s) THEN NullMatch ELSE ExecFrom(re, s, lastIndex + 1)

\* match[0]
MatchText(s, m) == SubSeq(s, m.index, m.lastIndex)

\* match[g]
MatchGroup(re, s, m, g) ==
    LET first == re.groups[g][1]
        last == re.groups[g][2]
        from == IF first = 1 THEN m.index ELSE m.ends[first - 1]
    IN SubSeq(s, from, m.ends[last] - 1)

---------------------------------------------------------------------------
(* extractImportStatements                                                 *)

Quotes == {"'", "\""}

\* /import\s+([A-Za-z0-9_$]+)\s+from\s+['"]([^'"]+)['"];?/g
defaultImportRegex ==
    [items |-> LitStr("import")
               \o <<Cls(WhiteSpace, FALSE, 1, -1),
                    Cls(IdentChars, FALSE, 1, -1),
                    Cls(WhiteSpace, FALSE, 1, -1)>>
               \o LitStr("from")
               \o <<Cls(WhiteSpace, FALSE, 1, -1),
                    Cls(Quotes, FALSE, 1, 1),
                    Cls(Quotes, TRUE, 1, -1),
                    Cls(Quotes, FALSE, 1, 1),
                    Cls({";"}, FALSE, 0, 1)>>,
     groups |-> << <<8, 8>>, <<16, 16>> >>]

\* /import\s+\{([^}]+)\}\s+from\s+['"]([^'"]+)['"];?/g
namedImportRegex ==
    [items |-> LitStr("import")
               \o <<Cls(WhiteSpace, FALSE, 1, -1),
                    Lit("{"),
                    Cls({"}"}, TRUE, 1, -1),
                    Lit("}"),
                    Cls(WhiteSpace, FALSE, 1, -1)>>
               \o LitStr("from")
               \o <<Cls(WhiteSpace, FALSE, 1, -1),
                    Cls(Quotes, FALSE, 1, 1),
                    Cls(Quotes, TRUE, 1, -1),
                    Cls(Quotes, FALSE, 1, 1),
                    Cls({";"}, FALSE, 0, 1)>>,
     groups |-> << <<9, 9>>, <<18, 18>> >>]

\* the first while loop: every default import binds its identifier to match[0]
RECURSIVE DefaultImportLoop(_, _, _)
DefaultImportLoop(text, lastIndex, map) ==
    LET m == RegExpExec(defaultImportRegex, text, lastIndex) IN
    IF ~m.found THEN map
    ELSE DefaultImportLoop(text, m.lastIndex,
             ObjSet(map, MatchGroup(defaultImportRegex, text, m, 1), MatchText(text, m)))

\* the local name an item of a named import introduces
LocalName(item) ==
    IF Includes(item, " as ") THEN Trim(Split(item, " as ")[2]) ELSE item

\* match[1].split(',').map(item => item.trim())
ImportedItems(list) ==
    LET parts == Split(list, ",") IN [i \in 1..Len(parts) |-> Trim(parts[i])]

\* for (const item of importedItems) importMap[localName] = match[0]
RECURSIVE BindItems(_, _, _, _)
BindItems(items, i, statement, map) ==
    IF i > Len(items) THEN map
    ELSE BindItems(items, i + 1, statement, ObjSet(map, LocalName(items[i]), statement))

\* the second while loop: every item of every named import
RECURSIVE NamedImportLoop(_, _, _)
NamedImportLoop(text, lastIndex, map) ==
    LET m == RegExpExec(namedImportRegex, text, lastIndex) IN
    IF ~m.found THEN map
    ELSE NamedImportLoop(text, m.lastIndex,
             BindItems(ImportedItems(MatchGroup(namedImportRegex, text, m, 1)), 1,
                       MatchText(text, m), map))

\* extractImportStatements with its two loops in the other order
extractImportsNamedFirst(text) ==
    DefaultImportLoop(text, 0, NamedImportLoop(text, 0, EmptyObject))

\* extractImportStatements (lines 19-42): the loop over the default imports,
\* then the loop over the named imports, on the same map
extractImportStatements(text) ==
    NamedImportLoop(text, 0, DefaultImportLoop(text, 0, EmptyObject))

---------------------------------------------------------------------------
(* extractReactComponentInstances                                          *)

\* /(?<![A-Za-z0-9_$])<([A-Z][a-zA-Z0-9_]*)\b/g, the expression line 62 keeps
\* in a comment
lookbehindComponentRegex ==
    [items |-> <<NotBehind(IdentChars),
                 Lit("<"),
                 Cls(Upper, FALSE, 1, 1),
                 Cls(WordChars, FALSE, 0, -1),
                 WordBoundary>>,
     groups |-> << <<3, 4>> >>]

\* componentRegex with a first letter of either case
anyCaseComponentRegex ==
    [items |-> <<Lit("<"),
                 Cls(Upper \cup Lower, FALSE, 1, 1),
                 Cls(WordChars, FALSE, 0, -1),
                 WordBoundary>>,
     groups |-> << <<2, 3>> >>]

\* /<([A-Z][a-zA-Z0-9_]*)\b/g, the expression in force (line 63)
componentRegex ==
    [items |-> <<Lit("<"),
                 Cls(Upper, FALSE, 1, 1),
                 Cls(WordChars, FALSE, 0, -1),
                 WordBoundary>>,
     groups |-> << <<2, 3>> >>]

\* if (!result[componentName]) result[componentName] = []; result[componentName].push(...)
PushInstance(res, name, instance) ==
    LET r == IF ObjGet(res, name) = Undefined THEN ObjSet(res, name, <<>>) ELSE res
    IN [r EXCEPT ![name] = Append(@, instance)]

\* Instance with the 0-based index reported as the line number
InstanceZeroBased(line, index, map, componentName) ==
    [lineNumber |-> index,
     lineContent |-> Trim(line),
     importStatement |-> ObjGet(map, componentName)]

\* Instance with a missing import statement reported as "" (importMap[name] || "")
InstanceEmptyImport(line, index, map, componentName) ==
    [lineNumber |-> index + 1,
     lineContent |-> Trim(line),
     importStatement |-> IF ObjGet(map, componentName) = Undefined THEN Some("")
                         ELSE ObjGet(map, componentName)]

\* the object pushed for one match (lines 71-75)
Instance(line, index, map, componentName) ==
    [lineNumber |-> index + 1,
     lineContent |-> Trim(line),
     importStatement |-> ObjGet(map, componentName)]

\* the loop written as an if: one exec per line, whose lastIndex the next
\* line inherits
LineLoopFirstMatchOnly(line, index, lastIndex, map, res) ==
    LET m == RegExpExec(componentRegex, line, lastIndex) IN
    IF ~m.found THEN [result |-> res, lastIndex |-> 0]
    ELSE LET componentName == MatchGroup(componentRegex, line, m, 1) IN
         [result |-> PushInstance(res, componentName, Instance(line, index, map, componentName)),
          lastIndex |-> m.lastIndex]

\* The while loop over one line.  componentRegex is shared by all lines, so
\* its lastIndex is handed from line to line; the loop ends on a null, which
\* has reset it to 0.
RECURSIVE LineLoop(_, _, _, _, _)
LineLoop(line, index, lastIndex, map, res) ==
    LET m == RegExpExec(componentRegex, line, lastIndex) IN
    IF ~m.found THEN [result |-> res, lastIndex |-> 0]
    ELSE LET componentName == MatchGroup(componentRegex, line, m, 1) IN
         LineLoop(line, index, m.lastIndex, map,
                  PushInstance(res, componentName, Instance(line, index, map, componentName)))

\* lines.forEach((line, index) => ...), index counting from 0
RECURSIVE ForEachLine(_, _, _, _, _)
ForEachLine(lines, index, lastIndex, map, res) ==
    IF index >= Len(lines) THEN res
    ELSE LET r == LineLoop(lines[index + 1], index, lastIndex, map, res) IN
         ForEachLine(lines, index + 1, r.lastIndex, map, r.result)

extractReactComponentInstances(text) ==
    ForEachLine(Split(text, "\n"), 0, 0, extractImportStatements(text), EmptyObject)

---------------------------------------------------------------------------
(* matchWildcard: globToRegex rewrites the glob into the text of a regular *)
(* expression, new RegExp parses that text, test searches the path.        *)

\* the characters of the class /([.+^${}()|[\]\\])/
RegexSpecials == {".", "+", "^", "$", "{", "}", "(", ")", "|", "[", "]", "\\"}

\* glob.replace(/([.+^${}()|[\]\\])/g, '\\$1'): a backslash before each of them
RECURSIVE EscapeSpecials(_)
EscapeSpecials(s) ==
    IF s = "" THEN ""
    ELSE LET c == At(s, 1) IN
         (IF c \in RegexSpecials THEN "\\" \o c ELSE c)
             \o EscapeSpecials(SubSeq(s, 2, Len(s)))

doubleStarPlaceholder == "__DS__"

\* lines 122-125: the glob, without a leading "**/", as the text of a
\* regular expression
globBody(glob) ==
    LET g1 == ReplaceAll(glob, "**", doubleStarPlaceholder)
        g2 == EscapeSpecials(g1)
        g3 == ReplaceAll(g2, "*", "[^/]*")
    IN ReplaceAll(g3, doubleStarPlaceholder, ".*")

\* globToRegex (lines 115-127)
globToRegex(glob) ==
    LET leading == StartsWith(glob, "**/")
        prefix == IF leading THEN "^(?:.*\\/)?" ELSE "^"
        rest == IF leading THEN SubSeq(glob, 4, Len(glob)) ELSE glob
    IN prefix \o globBody(rest) \o "$"

\* new RegExp(source), for the syntax globToRegex can produce: the assertions
\* ^ and $, the atoms ".", "[...]", "\c", "(?:...)" and a plain character,
\* and the quantifiers "*", "?" and "+", each with an optional lazy "?".
\* ok is FALSE where the constructor throws a SyntaxError.
ParseError == [ok |-> FALSE, items |-> <<>>, next |-> 0]

\* the quantifier at position i of src, if any
ParseQuantifier(src, i) ==
    LET c == At(src, i)
        lazy == IF At(src, i + 1) = "?" THEN 1 ELSE 0
    IN IF c = "*" THEN [present |-> TRUE, min |-> 0, max |-> -1, next |-> i + 1 + lazy]
       ELSE IF c = "+" THEN [present |-> TRUE, min |-> 1, max |-> -1, next |-> i + 1 + lazy]
       ELSE IF c = "?" THEN [present |-> TRUE, min |-> 0, max |-> 1, next |-> i + 1 + lazy]
       ELSE [present |-> FALSE, min |-> 1, max |-> 1, next |-> i]

\* the characters of src from position i up to position j - 1, as a set
CharsBetween(src, i, j) == {At(src, k) : k \in i..(j - 1)}

RECURSIVE ParseSequence(_, _, _, _)
\* the atom or assertion at position i of src
ParseAtom(src, i) ==
    LET c == At(src, i) IN
    IF c = "^" THEN [ok |-> TRUE, item |-> [kind |-> "bol"], next |-> i + 1, atom |-> FALSE]
    ELSE IF c = "$" THEN [ok |-> TRUE, item |-> [kind |-> "eol"], next |-> i + 1, atom |-> FALSE]
    ELSE IF c \in {"*", "?", "+"} THEN [ok |-> FALSE]
    ELSE IF c = "\\" THEN
        IF i + 1 > Len(src) THEN [ok |-> FALSE]
        ELSE [ok |-> TRUE, item |-> Lit(At(src, i + 1)), next |-> i + 2, atom |-> TRUE]
    ELSE IF c = "." THEN
        [ok |-> TRUE, item |-> Cls(LineTerminators, TRUE, 1, 1), next |-> i + 1, atom |-> TRUE]
    ELSE IF c = "[" THEN
        LET close == IndexOf(src, "]", i + 1)
            neg == At(src, i + 1) = "^"
            first == IF neg THEN i + 2 ELSE i + 1
        IN IF close = 0 THEN [ok |-> FALSE]
           ELSE [ok |-> TRUE, item |-> Cls(CharsBetween(src, first, close), neg, 1, 1),
                 next |-> close + 1, atom |-> TRUE]
    ELSE IF c = "(" THEN
        LET inner == ParseSequence(src, i + 3, <<>>, TRUE) IN
        IF Slice(src, i + 1, i + 2) # "?:" \/ ~inner.ok THEN [ok |-> FALSE]
        ELSE [ok |-> TRUE,
              item |-> [kind |-> "group", items |-> inner.items, min |-> 1, max |-> 1],
              next |-> inner.next + 1, atom |-> TRUE]
    ELSE [ok |-> TRUE, item |-> Lit(c), next |-> i + 1, atom |-> TRUE]

\* the items from position i of src to its end or, in a group, to the ")"
ParseSequence(src, i, acc, inGroup) ==
    IF i > Len(src) THEN [ok |-> ~inGroup, items |-> acc, next |-> i]
    ELSE IF At(src, i) = ")" THEN [ok |-> inGroup, items |-> acc, next |-> i]
    ELSE LET a == ParseAtom(src, i) IN
         IF ~a.ok THEN ParseError
         ELSE LET q == ParseQuantifier(src, a.next) IN
              IF ~q.present THEN ParseSequence(src, a.next, Append(acc, a.item), inGroup)
              ELSE IF ~a.atom THEN ParseError
              ELSE ParseSequence(src, q.next,
                       Append(acc, [a.item EXCEPT !.min = q.min, !.max = q.max]), inGroup)

RegExpParse(src) == ParseSequence(src, 1, <<>>, FALSE)

\* Whether items match s from position i on.  A group here is quantified
\* {1,1} or {0,1}: once, or not at all.
RECURSIVE TestItems(_, _, _)
TestItems(items, s, i) ==
    IF items = <<>> THEN TRUE
    ELSE LET h == Head(items)
             t == Tail(items)
         IN IF h.kind = "bol" THEN i = 1 /\ TestItems(t, s, i)
            ELSE IF h.kind = "eol" THEN i = Len(s) + 1 /\ TestItems(t, s, i)
            ELSE IF h.kind = "group" THEN
                \/ TestItems(h.items \o t, s, i)
                \/ (h.min = 0 /\ TestItems(t, s, i))
            ELSE \E n \in h.min..RunLength(h, s, i, 0) : TestItems(t, s, i + n)

\* regex.test(s) of an expression without the g flag: a match from any position
RegExpTest(regex, s) == \E i \in 1..(Len(s) + 1) : TestItems(regex.items, s, i)

\* matchWildcard (lines 114-131)
matchWildcard(path, glob) ==
    LET regexString == globToRegex(glob)
        regex == RegExpParse(regexString)
    IN IF ~regex.ok THEN [threw |-> TRUE, value |-> FALSE]
       ELSE [threw |-> FALSE, value |-> RegExpTest(regex, path)]

---------------------------------------------------------------------------
(* filterIgnoredFiles                                                      *)

MaxOf(S) == CHOOSE x \in S : \A y \in S : y <= x

\* path.basename(p) (line 142), for "/"-separated paths: the text between
\* the last "/" that has something other than "/" after it and the trailing
\* "/"s; "" when p holds nothing but "/"
Basename(p) ==
    LET others == {k \in 1..Len(p) : At(p, k) # "/"}
        end == IF others = {} THEN 0 ELSE MaxOf(others)
        slashes == {k \in 1..end : At(p, k) = "/"}
        start == IF slashes = {} THEN 0 ELSE MaxOf(slashes)
    IN IF end = 0 THEN "" ELSE SubSeq(p, start + 1, end)

\* ignorePatterns.some(pattern => matchWildcard(filePath, pattern) ||
\* matchWildcard(baseName, pattern)), from the i-th pattern on; an exception
\* of matchWildcard ends it
RECURSIVE SomePatternMatches(_, _, _, _)
SomePatternMatches(p, baseName, patterns, i) ==
    IF i > Len(patterns) THEN [threw |-> FALSE, value |-> FALSE]
    ELSE LET onPath == matchWildcard(p, patterns[i]) IN
         IF onPath.threw \/ onPath.value THEN onPath
         ELSE LET onBase == matchWildcard(baseName, patterns[i]) IN
              IF onBase.threw \/ onBase.value THEN onBase
              ELSE SomePatternMatches(p, baseName, patterns, i + 1)

\* filePaths.filter(...), from the i-th path on; kept holds the paths kept
\* so far
RECURSIVE FilterLoop(_, _, _, _)
FilterLoop(filePaths, i, patterns, kept) ==
    IF i > Len(filePaths) THEN [threw |-> FALSE, value |-> kept]
    ELSE LET some == SomePatternMatches(filePaths[i], Basename(filePaths[i]), patterns, 1) IN
         IF some.threw THEN [threw |-> TRUE, value |-> <<>>]
         ELSE FilterLoop(filePaths, i + 1, patterns,
                         IF some.value THEN kept ELSE Append(kept, filePaths[i]))

\* filterIgnoredFiles (lines 140-147)
filterIgnoredFiles(filePaths, patterns) == FilterLoop(filePaths, 1, patterns, <<>>)

---------------------------------------------------------------------------
(* main: the loop over the files (lines 195-217).  The log holds, in       *)
(* order, every call of readFile and of extractReactComponentInstances,    *)
(* and every console.log and console.error.                                *)

LogEntry(op, file, components) == [op |-> op, file |-> file, components |-> components]

\* lines 198-213, once readFile has returned text: the components are
\* extracted, and printed when there are any
ScanFile(file, text) ==
    LET components == extractReactComponentInstances(text) IN
    <<LogEntry("extractReactComponentInstances", file, components)>>
        \o (IF DOMAIN components # {} THEN <<LogEntry("console.log", file, components)>>
            ELSE <<>>)

\* a loop that a failed read leaves: the files after the i-th (of n) are
\* not visited
BreakOnReadError(i, n) == n

\* The catch block (lines 214-216) is inside the loop's body: after the
\* i-th file (of n) has failed, the loop goes on to the next one.
ContinueAfterReadError(i, n) == i + 1

---------------------------------------------------------------------------
(* Inputs.  A text is a concatenation of a few fragments, or one of the    *)
(* texts runTests feeds the scanners.                                      *)

MaxStatements == 2
MaxFragments == 3

\* the concatenations of at most n members of S
RECURSIVE Concats(_, _)
Concats(S, n) ==
    IF n = 0 THEN {""}
    ELSE LET shorter == Concats(S, n - 1) IN
         shorter \cup {t \o c : t \in shorter, c \in S}

\* import X from <q>m<q>
DefaultStatement(X, q, m) == "import " \o X \o " from " \o q \o m \o q
\* import { A, B as C } from <q>m<q>
GroupedStatement(A, B, C, q, m) ==
    "import { " \o A \o ", " \o B \o " as " \o C \o " } from " \o q \o m \o q

ImportFragments ==
    {DefaultStatement("A", "\"", "m"),
     DefaultStatement("A", "'", "n"),
     DefaultStatement("B", "\"", "m"),
     DefaultStatement("__proto__", "\"", "m"),
     GroupedStatement("A", "B", "C", "\"", "m"),
     GroupedStatement("__proto__", "A", "B", "'", "n"),
     "import { C } from 'n'",
     "import B from \"",
     ";",
     "\n"}

\* runTests, lines 230-234
ImportsTestContent ==
    "\nimport { StrictMode } from \"react\";\nimport App from \"./App.tsx\";\nimport { Foo as Bar } from \"baz\";\n"

ImportTexts == Concats(ImportFragments, MaxStatements) \cup {ImportsTestContent}

UsageFragments ==
    {DefaultStatement("App", "\"", "m"),
     "import { Foo as Bar } from 'n'",
     "\n",
     " ",
     "<App",
     "<Bar>",
     "<div>",
     "<App /><App />",
     "Foo"}

\* runTests, lines 244-252
InstancesTestContent ==
    "import { StrictMode } from \"react\";\nimport App from \"./App.tsx\";\nfunction Main() {\n  return (\n    <StrictMode>\n      <App />\n    </StrictMode>\n  );\n}"

\* runTests, lines 266-270
GenericsTestContent ==
    "function example<T>() {\n  return Promise.resolve<T>();\n}\ntype MyType = Promise<Character>;\n"

\* runTests, lines 530-543
HeaderTestContent ==
    "\n      import React from 'react';\n      function App() {\n        return (\n          <div>\n            <Header />\n            <MainContent someProp=\"value\" />\n            <Footer />\n            <Header prop=\"another\" />\n          </div>\n        );\n      }\n      export default App;\n    "

UsageTexts ==
    Concats(UsageFragments, MaxFragments)
        \cup {InstancesTestContent, GenericsTestContent, HeaderTestContent}

\* A glob is a concatenation of a few of these; "**" is two "*".
MaxGlobFragments == 3
GlobFragments == {"a", ".j", "/", "*", "**/", "__DS__", "?"}

\* A path is a concatenation of a few of these.  A newline is a legal
\* character of a file name, and getAllFiles returns names as they are.
MaxPathFragments == 2
PathFragments == {"a", "a/", ".j", "xj", "/", "\n"}

\* the calls of matchWildcard in runTests (lines 278-280, 557-566) and the
\* paths and patterns of its filterIgnoredFiles tests (lines 285-302, 571-582)
TestPatterns ==
    {"src/*.tsx", "src/**/*.tsx", "*.jsx", "jest*",
     "**/node_modules/**", "**/jest*", "*test*", "**/dist/**"}
TestPaths ==
    {"src/index.tsx", "src/components/index.tsx", "file.jsx", "folder/file.jsx",
     "jest.config.js", "src/App.tsx", "src/App.test.tsx", "node_modules/lib.js",
     "../project/jest.config.js", "../project/src/__tests__/Sample.test.tsx",
     "dist/assets/index.js", "src/components/Widget.tsx"}

GlobPatterns == Concats(GlobFragments, MaxGlobFragments) \cup TestPatterns
GlobPaths == Concats(PathFragments, MaxPathFragments) \cup TestPaths

\* the sequences of at most n members of S
SeqsUpTo(S, n) == UNION {[1..k -> S] : k \in 0..n}

\* The list main loops over holds distinct paths (getAllFiles walks each
\* directory once); a file that can be read holds one of a few texts.
MaxFiles == 2
FileNames == {"a.tsx", "b.ts", "c.js"}
FileLists ==
    {l \in SeqsUpTo(FileNames, MaxFiles) : \A i \in 1..Len(l), j \in 1..Len(l) : l[i] = l[j] => i = j}
FileContents == {"", "<div>", DefaultStatement("App", "\"", "m") \o "\n<App"}

\* The arguments of filterIgnoredFiles: a few paths and a few patterns, or
\* the lists of runTests (lines 285-290 and 296-301).
MaxFilePaths == 2
MaxIgnorePatterns == 2
FilterPaths == {"a", "b/a", "a/", "b/x.j", "x.j"}
FilterPatterns == {"a", "*.j", "**/b/**", "?"}
FilterTests ==
    {<< <<"src/App.tsx", "src/App.test.tsx", "node_modules/lib.js">>,
        <<"**/node_modules/**", "*test*">> >>,
     << <<"src/App.tsx", "dist/assets/index.js", "src/components/Widget.tsx">>,
        <<"**/dist/**">> >>}
FilterInputs ==
    (SeqsUpTo(FilterPaths, MaxFilePaths) \X SeqsUpTo(FilterPatterns, MaxIgnorePatterns))
        \cup FilterTests

---------------------------------------------------------------------------
(* The scanners as state machines: the text is chosen, the function runs.  *)

\* the variables of filterIgnoredFiles and of main, and their values where
\* neither has been called
mainVars == <<files, ignorePatterns, filtered, fileIndex, log>>
MainIdle ==
    /\ files = <<>>
    /\ ignorePatterns = <<>>
    /\ filtered = [threw |-> FALSE, value |-> <<>>]
    /\ fileIndex = 0
    /\ log = <<>>

InitImports ==
    /\ pc = "start"
    /\ content \in ImportTexts
    /\ importMap = EmptyObject
    /\ result = EmptyObject
    /\ filePath = ""
    /\ pattern = ""
    /\ matched = [threw |-> FALSE, value |-> FALSE]
    /\ MainIdle

ExtractImportStatements ==
    /\ pc = "start"
    /\ importMap' = extractImportStatements(content)
    /\ pc' = "imports"
    /\ UNCHANGED <<content, result, filePath, pattern, matched>>
    /\ UNCHANGED mainVars

NextImports == ExtractImportStatements

SpecImports == InitImports /\ [][NextImports]_vars

InitUsages ==
    /\ pc = "start"
    /\ content \in UsageTexts
    /\ importMap = EmptyObject
    /\ result = EmptyObject
    /\ filePath = ""
    /\ pattern = ""
    /\ matched = [threw |-> FALSE, value |-> FALSE]
    /\ MainIdle

\* importMap is the function's local of that name (line 59)
ExtractReactComponentInstances ==
    /\ pc = "start"
    /\ importMap' = extractImportStatements(content)
    /\ result' = extractReactComponentInstances(content)
    /\ pc' = "instances"
    /\ UNCHANGED <<content, filePath, pattern, matched>>
    /\ UNCHANGED mainVars

NextUsages == ExtractReactComponentInstances

SpecUsages == InitUsages /\ [][NextUsages]_vars

\* matchWildcard: the pattern is chosen, then the call runs on some path.
InitGlob ==
    /\ pc = "start"
    /\ pattern \in GlobPatterns
    /\ filePath = ""
    /\ matched = [threw |-> FALSE, value |-> FALSE]
    /\ content = ""
    /\ importMap = EmptyObject
    /\ result = EmptyObject
    /\ MainIdle

MatchWildcard ==
    /\ pc = "start"
    /\ \E path \in GlobPaths :
           /\ filePath' = path
           /\ matched' = matchWildcard(path, pattern)
    /\ pc' = "matched"
    /\ UNCHANGED <<pattern, content, importMap, result>>
    /\ UNCHANGED mainVars

NextGlob == MatchWildcard

SpecGlob == InitGlob /\ [][NextGlob]_vars

\* filterIgnoredFiles: the two lists are chosen, then the call runs.
InitFilter ==
    /\ pc = "start"
    /\ \E input \in FilterInputs :
           /\ files = input[1]
           /\ ignorePatterns = input[2]
    /\ filtered = [threw |-> FALSE, value |-> <<>>]
    /\ fileIndex = 0
    /\ log = <<>>
    /\ content = ""
    /\ importMap = EmptyObject
    /\ result = EmptyObject
    /\ filePath = ""
    /\ pattern = ""
    /\ matched = [threw |-> FALSE, value |-> FALSE]

FilterIgnoredFiles ==
    /\ pc = "start"
    /\ filtered' = filterIgnoredFiles(files, ignorePatterns)
    /\ pc' = "filtered"
    /\ UNCHANGED <<files, ignorePatterns, fileIndex, log>>
    /\ UNCHANGED <<content, importMap, result, filePath, pattern, matched>>

NextFilter == FilterIgnoredFiles

SpecFilter == InitFilter /\ [][NextFilter]_vars

\* main, from the for loop on: the list of files is the filtered one.
InitMain ==
    /\ pc = "loop"
    /\ files \in FileLists
    /\ fileIndex = 0
    /\ log = <<>>
    /\ ignorePatterns = <<>>
    /\ filtered = [threw |-> FALSE, value |-> <<>>]
    /\ content = ""
    /\ importMap = EmptyObject
    /\ result = EmptyObject
    /\ filePath = ""
    /\ pattern = ""
    /\ matched = [threw |-> FALSE, value |-> FALSE]

\* one iteration in which readFile returns the file's text
ReadFileAndScan ==
    /\ pc = "loop"
    /\ fileIndex < Len(files)
    /\ \E text \in FileContents :
           /\ content' = text
           /\ importMap' = extractImportStatements(text)
           /\ result' = extractReactComponentInstances(text)
           /\ log' = log \o <<LogEntry("readFile", files[fileIndex + 1], EmptyObject)>>
                         \o ScanFile(files[fileIndex + 1], text)
    /\ fileIndex' = fileIndex + 1
    /\ UNCHANGED <<pc, files, ignorePatterns, filtered, filePath, pattern, matched>>

\* one iteration in which readFile rejects: the catch block reports it
ReadFileFails ==
    /\ pc = "loop"
    /\ fileIndex < Len(files)
    /\ log' = log \o <<LogEntry("readFile", files[fileIndex + 1], EmptyObject),
                        LogEntry("console.error", files[fileIndex + 1], EmptyObject)>>
    /\ fileIndex' = ContinueAfterReadError(fileIndex, Len(files))
    /\ UNCHANGED <<pc, files, ignorePatterns, filtered, filePath, pattern, matched>>
    /\ UNCHANGED <<content, importMap, result>>

\* console.log("Scanned Files:", files), after the loop (line 217)
ScannedFiles ==
    /\ pc = "loop"
    /\ fileIndex = Len(files)
    /\ log' = Append(log, LogEntry("console.log", "Scanned Files:", EmptyObject))
    /\ pc' = "done"
    /\ UNCHANGED <<files, fileIndex, ignorePatterns, filtered, filePath, pattern, matched>>
    /\ UNCHANGED <<content, importMap, result>>

NextMain == ReadFileAndScan \/ ReadFileFails \/ ScannedFiles

SpecMain == InitMain /\ [][NextMain]_vars

---------------------------------------------------------------------------
(* The vocabulary of the properties, defined apart from the scanners.      *)

\* the names and modules the statements of the properties range over
ClaimNames == {"A", "B", "C", "__proto__"}
ClaimModules == {"m", "n"}

\* the number of places where t occurs in s
Occurrences(s, t) ==
    Cardinality({j \in 1..(Len(s) - Len(t) + 1) : SubSeq(s, j, j + Len(t) - 1) = t})

\* the statement at position p of text, with the ";" that follows it, if any
WithSemicolon(text, p, statement) ==
    IF At(text, p + Len(statement)) = ";" THEN statement \o ";" ELSE statement

\* A default import of X stands in the text and X is written nowhere else
\* in it, so that no other statement can bind X.
DefaultImportIn(text, X, q, m) ==
    /\ IndexOf(text, DefaultStatement(X, q, m), 1) # 0
    /\ Occurrences(text, X) = 1

\* text is the grouped import of A and of B as C, with or without its ";"
IsGroupedImport(text, A, B, C, q, m) ==
    /\ Cardinality({A, B, C}) = 3
    /\ text \in {GroupedStatement(A, B, C, q, m), GroupedStatement(A, B, C, q, m) \o ";"}

---------------------------------------------------------------------------
(* Properties of extractImportStatements, under SpecImports.               *)

\* C1: when the text holds a default import "import X from <q>m<q>" and no
\* other import statement binds X, the map binds X to exactly that statement,
\* with its trailing ";" when there is one.
C1_DefaultImportBound ==
    pc = "imports" =>
        \A X \in ClaimNames, q \in Quotes, m \in ClaimModules :
            DefaultImportIn(content, X, q, m) =>
                LET statement == DefaultStatement(X, q, m)
                    p == IndexOf(content, statement, 1)
                IN /\ X \in DOMAIN importMap
                   /\ importMap[X] = WithSemicolon(content, p, statement)

\* C1, the part the code keeps: the same for every name but __proto__, when
\* the text holds nothing before the statement (no earlier match can have
\* consumed its beginning).
C1_DefaultImportBoundAtStart ==
    pc = "imports" =>
        \A X \in ClaimNames \ {"__proto__"}, q \in Quotes, m \in ClaimModules :
            (DefaultImportIn(content, X, q, m) /\ StartsWith(content, DefaultStatement(X, q, m))) =>
                /\ X \in DOMAIN importMap
                /\ importMap[X] = WithSemicolon(content, 1, DefaultStatement(X, q, m))

\* C2: for the grouped import "import { A, B as C } from <q>m<q>" the map
\* holds the keys A and C and not B, both bound to the whole statement.
C2_GroupedImportBound ==
    pc = "imports" =>
        \A A \in ClaimNames, B \in ClaimNames, C \in ClaimNames, q \in Quotes, m \in ClaimModules :
            IsGroupedImport(content, A, B, C, q, m) =>
                /\ DOMAIN importMap = {A, C}
                /\ importMap[A] = content
                /\ importMap[C] = content

\* C2, the part the code keeps: the same when neither A nor C is __proto__.
C2_GroupedImportBoundOwnNames ==
    pc = "imports" =>
        \A A \in ClaimNames \ {"__proto__"}, B \in ClaimNames, C \in ClaimNames \ {"__proto__"},
           q \in Quotes, m \in ClaimModules :
            IsGroupedImport(content, A, B, C, q, m) =>
                /\ DOMAIN importMap = {A, C}
                /\ importMap[A] = content
                /\ importMap[C] = content

---------------------------------------------------------------------------
(* The vocabulary of the properties of the tag scanner.                    *)

\* the positions of the newlines of text, and its lines, counted from 1
Newlines(text) == {j \in 1..Len(text) : At(text, j) = "\n"}
NumLines(text) == Cardinality(Newlines(text)) + 1
NthNewline(text, n) ==
    CHOOSE j \in Newlines(text) : Cardinality({i \in Newlines(text) : i < j}) = n - 1
LineAt(text, k) ==
    LET first == IF k = 1 THEN 1 ELSE NthNewline(text, k - 1) + 1
        last == IF k = NumLines(text) THEN Len(text) ELSE NthNewline(text, k) - 1
    IN SubSeq(text, first, last)

\* t is line without the white space at its two ends
IsStripped(t, line) ==
    \E a \in 1..(Len(line) + 1), b \in 0..Len(line) :
        /\ t = SubSeq(line, a, b)
        /\ \A j \in 1..(a - 1) : At(line, j) \in WhiteSpace
        /\ \A j \in (b + 1)..Len(line) : At(line, j) \in WhiteSpace
        /\ At(t, 1) \notin WhiteSpace
        /\ At(t, Len(t)) \notin WhiteSpace

\* the positions of line where a "<" is followed by an upper-case letter, and
\* by a lower-case one
TagOpenings(line) == {p \in 1..Len(line) : At(line, p) = "<" /\ At(line, p + 1) \in Upper}
LowerOpenings(line) == {p \in 1..Len(line) : At(line, p) = "<" /\ At(line, p + 1) \in Lower}

\* the identifier that follows the "<" at position p: the letters, digits
\* and underscores up to the first other character
TagNameAt(line, p) ==
    LET n == CHOOSE n \in 1..Len(line) :
                 /\ \A j \in 1..n : At(line, p + j) \in WordChars
                 /\ At(line, p + n + 1) \notin WordChars
    IN SubSeq(line, p + 1, p + n)

\* the openings whose "<" directly follows a letter, digit, "_" or "$"
GenericOpenings(line) == {p \in TagOpenings(line) : At(line, p - 1) \in IdentChars}

\* every instance of the result, as <<name, position in the name's list>>
Instances == UNION {{<<name, i>> : i \in DOMAIN result[name]} : name \in DOMAIN result}

\* every tag opening of the text, as <<line number, position in the line>>
AllTagOpenings ==
    UNION {{<<k, p>> : p \in TagOpenings(LineAt(content, k))} : k \in 1..NumLines(content)}

\* the result holds an instance of name on line k
HasInstance(name, k) ==
    /\ name \in DOMAIN result
    /\ \E i \in DOMAIN result[name] : result[name][i].lineNumber = k

---------------------------------------------------------------------------
(* Properties of extractReactComponentInstances, under SpecUsages.         *)

\* C3: an instance carries the import statement bound to its name exactly
\* when the import map of the same text has that name as a key; otherwise
\* its importStatement is undefined; it is never the empty string.
C3_OriginStatement ==
    pc = "instances" =>
        \A inst \in Instances :
            LET name == inst[1]
                u == result[name][inst[2]]
            IN /\ name \in DOMAIN importMap => u.importStatement = Some(importMap[name])
               /\ name \notin DOMAIN importMap => u.importStatement = Undefined
               /\ u.importStatement # Some("")

\* C3 witness: one instance with its import statement, one without
C3_Witness ==
    /\ pc = "instances"
    /\ \E inst \in Instances : result[inst[1]][inst[2]].importStatement = Undefined
    /\ \E inst \in Instances :
           /\ inst[1] \in DOMAIN importMap
           /\ result[inst[1]][inst[2]].importStatement = Some(importMap[inst[1]])

\* C4: a tag opening "<Foo" on line k gives, under Foo, an instance with
\* lineNumber k and the stripped line as lineContent; every lineNumber is
\* between 1 and the number of lines.
C4_LineNumbers ==
    pc = "instances" =>
        /\ \A o \in AllTagOpenings :
               LET line == LineAt(content, o[1])
                   name == TagNameAt(line, o[2])
               IN /\ name \in DOMAIN result
                  /\ \E i \in DOMAIN result[name] :
                         /\ result[name][i].lineNumber = o[1]
                         /\ IsStripped(result[name][i].lineContent, line)
        /\ \A inst \in Instances :
               result[inst[1]][inst[2]].lineNumber \in 1..NumLines(content)

\* C4 witness: an instance on the last of several lines, whose line had
\* white space to strip
C4_Witness ==
    /\ pc = "instances"
    /\ NumLines(content) > 1
    /\ \E inst \in Instances :
           LET u == result[inst[1]][inst[2]] IN
           /\ u.lineNumber = NumLines(content)
           /\ u.lineContent # LineAt(content, u.lineNumber)

\* C5: a "<" before a lower-case letter gives no instance and no key, a
\* "<" before an upper-case letter always gives one under the tag's name;
\* every key starts with A-Z and is the name of a tag opening of the text.
C5_UppercaseTags ==
    pc = "instances" =>
        /\ \A name \in DOMAIN result : At(name, 1) \in Upper
        /\ \A inst \in Instances :
               \E o \in AllTagOpenings :
                   /\ o[1] = result[inst[1]][inst[2]].lineNumber
                   /\ TagNameAt(LineAt(content, o[1]), o[2]) = inst[1]
        /\ \A o \in AllTagOpenings : TagNameAt(LineAt(content, o[1]), o[2]) \in DOMAIN result
        /\ Cardinality(Instances) = Cardinality(AllTagOpenings)

\* C5 witness: a text with a <div> and a component tag, scanned
C5_Witness ==
    /\ pc = "instances"
    /\ \E k \in 1..NumLines(content) : LowerOpenings(LineAt(content, k)) # {}
    /\ "div" \notin DOMAIN result
    /\ DOMAIN result # {}

\* C6: a text whose only "<Uppercase" openings directly follow a letter,
\* digit, "_" or "$" (generic type parameters) yields a result with no key.
C6_GenericsIgnored ==
    pc = "instances" =>
        ((\A o \in AllTagOpenings : o[2] \in GenericOpenings(LineAt(content, o[1])))
            => DOMAIN result = {})

---------------------------------------------------------------------------
(* The vocabulary of the properties of the glob matcher: what a pattern    *)
(* means, read off the pattern itself.                                     *)

\* the characters a pattern is made of, besides "*"
PatternChars == Upper \cup Lower \cup Digit \cup {".", "/", "_", "-"}
IsPlainPattern(glob) ==
    \A k \in 1..Len(glob) : At(glob, k) \in PatternChars \cup {"*"}

EndsWith(s, t) == Len(s) >= Len(t) /\ SubSeq(s, Len(s) - Len(t) + 1, Len(s)) = t

\* path is the glob with its only "*" replaced by a text without "/"
IsStarInstance(path, glob) ==
    LET k == IndexOf(glob, "*", 1)
        before == SubSeq(glob, 1, k - 1)
        after == SubSeq(glob, k + 1, Len(glob))
    IN /\ Len(path) >= Len(before) + Len(after)
       /\ StartsWith(path, before)
       /\ EndsWith(path, after)
       /\ ~Includes(SubSeq(path, Len(before) + 1, Len(path) - Len(after)), "/")

\* The text of path from position j on is glob from position i on with each
\* "**" replaced by any text and each other "*" by a text without "/".
RECURSIVE IsGlobInstance(_, _, _, _)
IsGlobInstance(path, j, glob, i) ==
    IF i > Len(glob) THEN j = Len(path) + 1
    ELSE IF Slice(glob, i, i + 1) = "**" THEN
        \E n \in 0..(Len(path) - j + 1) : IsGlobInstance(path, j + n, glob, i + 2)
    ELSE IF At(glob, i) = "*" THEN
        \E n \in 0..(Len(path) - j + 1) :
            /\ ~Includes(SubSeq(path, j, j + n - 1), "/")
            /\ IsGlobInstance(path, j + n, glob, i + 1)
    ELSE /\ j <= Len(path)
         /\ At(path, j) = At(glob, i)
         /\ IsGlobInstance(path, j + 1, glob, i + 1)

\* the positions where path, or a suffix of it that follows a "/", begins
SuffixStarts(path) == {1} \cup {j + 1 : j \in {k \in 1..Len(path) : At(path, k) = "/"}}

\* the glob R, compiled by lines 122-125 and anchored at both ends, matches
\* the whole of text
BodyMatchesWhole(text, R) ==
    LET regex == RegExpParse("^" \o globBody(R) \o "$") IN
    regex.ok /\ RegExpTest(regex, text)

Returned(b) == [threw |-> FALSE, value |-> b]

---------------------------------------------------------------------------
(* Properties of matchWildcard, under SpecGlob.                            *)

\* C8: for a pattern with a single "*" and otherwise letters, digits, ".",
\* "/", "_" and "-", matchWildcard is true exactly of the paths that are the
\* pattern with the "*" replaced by a text without "/".
C8_SingleStar ==
    (pc = "matched" /\ IsPlainPattern(pattern) /\ Occurrences(pattern, "*") = 1)
        => matched = Returned(IsStarInstance(filePath, pattern))

\* C8, the part the code keeps: the same for the patterns that do not
\* contain the text __DS__.
C8_SingleStarWithoutPlaceholderText ==
    (pc = "matched" /\ IsPlainPattern(pattern) /\ Occurrences(pattern, "*") = 1
        /\ ~Includes(pattern, doubleStarPlaceholder))
        => matched = Returned(IsStarInstance(filePath, pattern))

\* C9: for a pattern with a "**" outside a leading "**/", matchWildcard is
\* true exactly of the paths that are the pattern with each "**" replaced by
\* any text and each single "*" by a text without "/", from start to end.
C9_DoubleStar ==
    (pc = "matched" /\ IsPlainPattern(pattern) /\ ~StartsWith(pattern, "**/")
        /\ Includes(pattern, "**"))
        => matched = Returned(IsGlobInstance(filePath, 1, pattern, 1))

\* C9, the part the code keeps: the same for the patterns without the text
\* __DS__ and the paths without a line terminator.
C9_DoubleStarOnOneLine ==
    (pc = "matched" /\ IsPlainPattern(pattern) /\ ~StartsWith(pattern, "**/")
        /\ Includes(pattern, "**")
        /\ ~Includes(pattern, doubleStarPlaceholder)
        /\ \A k \in 1..Len(filePath) : At(filePath, k) \notin LineTerminators)
        => matched = Returned(IsGlobInstance(filePath, 1, pattern, 1))

\* C10: for a pattern "**/R", matchWildcard is true exactly when R, compiled
\* by the remaining steps and anchored at its end, matches the whole path or
\* a suffix of it that begins right after a "/".
C10_LeadingDoubleStar ==
    (pc = "matched" /\ IsPlainPattern(pattern) /\ StartsWith(pattern, "**/"))
        => matched = Returned(\E j \in SuffixStarts(filePath) :
                                  BodyMatchesWhole(SubSeq(filePath, j, Len(filePath)),
                                                   SubSeq(pattern, 4, Len(pattern))))

\* C10, the part the code keeps: the same for the paths without a line
\* terminator.
C10_LeadingDoubleStarOnOneLine ==
    (pc = "matched" /\ IsPlainPattern(pattern) /\ StartsWith(pattern, "**/")
        /\ \A k \in 1..Len(filePath) : At(filePath, k) \notin LineTerminators)
        => matched = Returned(\E j \in SuffixStarts(filePath) :
                                  BodyMatchesWhole(SubSeq(filePath, j, Len(filePath)),
                                                   SubSeq(pattern, 4, Len(pattern))))

---------------------------------------------------------------------------
(* Properties of filterIgnoredFiles, under SpecFilter.                     *)

\* the final segment of a path: its last run of characters other than "/",
\* which begins the path or follows a "/" and has only "/"s after it
FinalSegment(p) ==
    IF \A k \in 1..Len(p) : At(p, k) = "/" THEN ""
    ELSE LET ab == CHOOSE ab \in (1..Len(p)) \X (1..Len(p)) :
                       /\ ab[1] <= ab[2]
                       /\ \A k \in ab[1]..ab[2] : At(p, k) # "/"
                       /\ ab[1] = 1 \/ At(p, ab[1] - 1) = "/"
                       /\ \A k \in (ab[2] + 1)..Len(p) : At(p, k) = "/"
         IN SubSeq(p, ab[1], ab[2])

\* the pattern matches the text: matchWildcard returns true
Matches(text, glob) == matchWildcard(text, glob) = Returned(TRUE)

\* no pattern matches the path or its final segment
Survives(p, patterns) ==
    \A i \in 1..Len(patterns) :
        ~Matches(p, patterns[i]) /\ ~Matches(FinalSegment(p), patterns[i])

SurvivorsOf(paths, patterns) ==
    LET Keep(p) == Survives(p, patterns) IN SelectSeq(paths, Keep)

\* C11: filterIgnoredFiles returns, in their order, exactly the paths that
\* no pattern matches, neither as a whole nor by their final segment; with
\* no pattern every path survives; of the three paths of runTests only
\* "src/App.tsx" survives the patterns "**/node_modules/**" and "*test*".
C11_FilterIgnoredFiles ==
    pc = "filtered" =>
        /\ filtered = [threw |-> FALSE, value |-> SurvivorsOf(files, ignorePatterns)]
        /\ ignorePatterns = <<>> => filtered.value = files
        /\ (/\ files = <<"src/App.tsx", "src/App.test.tsx", "node_modules/lib.js">>
            /\ ignorePatterns = <<"**/node_modules/**", "*test*">>)
               => filtered.value = <<"src/App.tsx">>

\* C11, the part the code keeps: the same when every pattern compiles to a
\* regular expression new RegExp accepts.
C11_FilterWhenPatternsCompile ==
    (pc = "filtered"
        /\ \A i \in 1..Len(ignorePatterns) : RegExpParse(globToRegex(ignorePatterns[i])).ok)
        => /\ filtered = [threw |-> FALSE, value |-> SurvivorsOf(files, ignorePatterns)]
           /\ ignorePatterns = <<>> => filtered.value = files
           /\ (/\ files = <<"src/App.tsx", "src/App.test.tsx", "node_modules/lib.js">>
               /\ ignorePatterns = <<"**/node_modules/**", "*test*">>)
                  => filtered.value = <<"src/App.tsx">>

---------------------------------------------------------------------------
(* Totality, under SpecGlob.  The two scanners have no statement that can  *)
(* raise: their loops end on a null match and their lookups are on plain   *)
(* objects.  matchWildcard hands a text it built to new RegExp.            *)

\* C12: whatever the path and the pattern, matchWildcard returns a boolean
\* and raises nothing.
C12_Total ==
    pc = "matched" => (~matched.threw /\ matched.value \in BOOLEAN)

\* C12, the part the code keeps: the same for the patterns without "?", the
\* one character of a regular expression's syntax that line 123 does not
\* escape and line 124 does not rewrite.
C12_TotalWithoutQuestionMark ==
    (pc = "matched" /\ ~Includes(pattern, "?"))
        => (~matched.threw /\ matched.value \in BOOLEAN)

---------------------------------------------------------------------------
(* The placeholder of "**", under SpecGlob.                                *)

\* a pattern of letters, digits, "_", ".", "/" and "-" only
IsLiteralPattern(glob) == \A k \in 1..Len(glob) : At(glob, k) \in PatternChars

\* C13: only a "**" of the pattern is compiled to the unrestricted
\* wildcard, so a pattern without "*", made of letters, digits, "_", ".",
\* "/" and "-" (the text __DS__ included), matches a path exactly when the
\* path equals the pattern.
C13_NoPlaceholderCollision ==
    (pc = "matched" /\ IsLiteralPattern(pattern))
        => matched = Returned(filePath = pattern)

\* C13, the part the code keeps: the same for the patterns that do not
\* contain the text __DS__.
C13_LiteralWithoutPlaceholderText ==
    (pc = "matched" /\ IsLiteralPattern(pattern)
        /\ ~Includes(pattern, doubleStarPlaceholder))
        => matched = Returned(filePath = pattern)

---------------------------------------------------------------------------
(* Duplicate declarations, under SpecImports.                              *)

\* the local names a well-formed statement introduces, read off its text
DefaultNames(statement) ==
    {X \in ClaimNames : \E q \in Quotes, m \in ClaimModules : statement = DefaultStatement(X, q, m)}
GroupedNames(statement) ==
    {X \in ClaimNames :
        \/ \E A \in ClaimNames, B \in ClaimNames, q \in Quotes, m \in ClaimModules :
               statement \in {GroupedStatement(X, A, B, q, m), GroupedStatement(A, B, X, q, m)}
        \/ \E q \in Quotes, m \in ClaimModules :
               statement = "import { " \o X \o " } from " \o q \o m \o q}

\* the well-formed statements the texts are made of, each with its names
ClaimStatements ==
    {f \in ImportFragments : DefaultNames(f) \cup GroupedNames(f) # {}}
IntroducedBy == [f \in ClaimStatements |-> DefaultNames(f) \cup GroupedNames(f)]
IsGroupedStyle == [f \in ClaimStatements |-> GroupedNames(f) # {}]

\* what may stand between two statements, and after the last one
Separators == {"", ";", "\n"}
Terminators == {"", ";"}

\* the text is the statement first, a separator, the statement second and a
\* terminator, and both statements introduce the name X
DeclaredTwice(text, first, sep, second, end, X) ==
    /\ text = first \o sep \o second \o end
    /\ X \in IntroducedBy[first] \cap IntroducedBy[second]

---------------------------------------------------------------------------
(* Properties of main's loop, under SpecMain.                              *)

\* the files of the log's entries of one operation, in the log's order
FilesOf(op) ==
    LET Is(e) == e.op = op
        entries == SelectSeq(log, Is)
    IN [i \in 1..Len(entries) |-> entries[i].file]

\* the files the loop has been through
Visited == SubSeq(files, 1, fileIndex)

\* the files whose read failed
FailedFiles == {FilesOf("console.error")[i] : i \in 1..Len(FilesOf("console.error"))}

\* C15: a failed read is reported for its file alone and does not end the
\* scan.  Every file the loop has been through was read exactly once, in
\* list order; each failed one was reported once and never extracted nor
\* read again; each other one was extracted exactly once, in list order;
\* when the loop is over it has been through the whole list.
C15_ReadFailureIsolated ==
    pc \in {"loop", "done"} =>
        /\ FilesOf("readFile") = Visited
        /\ LET Failed(f) == f \in FailedFiles
               Read(f) == f \notin FailedFiles
           IN /\ FilesOf("console.error") = SelectSeq(Visited, Failed)
              /\ FilesOf("extractReactComponentInstances") = SelectSeq(Visited, Read)
        /\ pc = "done" => fileIndex = Len(files)

\* C15 witness: the loop is over, the first file's read failed and a later
\* file was read and extracted
C15_Witness ==
    /\ pc = "done"
    /\ Len(files) >= 2
    /\ files[1] \in FailedFiles
    /\ \E i \in 1..Len(FilesOf("extractReactComponentInstances")) :
           FilesOf("extractReactComponentInstances")[i] = files[Len(files)]

---------------------------------------------------------------------------
(* Every occurrence is an instance, under SpecUsages.                      *)

\* the tag openings of name on line k of the text
OpeningsOf(name, k) ==
    {p \in TagOpenings(LineAt(content, k)) : TagNameAt(LineAt(content, k), p) = name}

\* the names of the tag openings of the text
TagNames ==
    {TagNameAt(LineAt(content, o[1]), o[2]) : o \in AllTagOpenings}

\* the instances recorded under name, none when name is no key
InstancesOf(name) == IF name \in DOMAIN result THEN result[name] ELSE <<>>

\* C16: under each name the result holds as many instances as the text has
\* tag openings of that name, line by line (several openings on a line each
\* count, and an opening counts wherever it stands in its line, whatever
\* the line before held), and the instances of a name are in the order of
\* their lines.  Instances of one name on one line are equal records, so
\* their left-to-right order shows as their number only.
C16_EveryOccurrence ==
    pc = "instances" =>
        \A name \in TagNames \cup DOMAIN result :
            LET list == InstancesOf(name) IN
            /\ Len(list) = Cardinality({o \in AllTagOpenings :
                                            TagNameAt(LineAt(content, o[1]), o[2]) = name})
            /\ \A k \in 1..NumLines(content) :
                   Cardinality({i \in 1..Len(list) : list[i].lineNumber = k})
                       = Cardinality(OpeningsOf(name, k))
            /\ \A i \in 1..Len(list), j \in 1..Len(list) :
                   i <= j => list[i].lineNumber <= list[j].lineNumber

\* C16 witness: a name with two openings on one line and, on the next line,
\* an opening that stands before the place where the search of the first
\* line stopped; three instances, in the order of their lines
C16_Witness ==
    /\ pc = "instances"
    /\ \E name \in DOMAIN result, k \in 1..NumLines(content) :
           /\ k + 1 <= NumLines(content)
           /\ Cardinality(OpeningsOf(name, k)) = 2
           /\ \E p \in OpeningsOf(name, k + 1) : \E q \in OpeningsOf(name, k) : p < q
           /\ Len(result[name]) = 3
           /\ result[name][2].lineNumber = k
           /\ result[name][3].lineNumber = k + 1

====
